---------------------------- MODULE Spec2Model ----------------------------
(***************************************************************************)
(* Model of rad_test_controller.py (the two-device controller: a TX2 and   *)
(* an Arduino on serial links) of UBCOrbit/payload-radiation-tests-host.   *)
(*                                                                         *)
(* Two threads of control:                                                 *)
(*   - the main thread: the outer connect/run loop at module level, with   *)
(*     RadTestController.connect, run, __cycle_power, disconnect.  Its     *)
(*     position is pc; ctx says which caller the code is running for       *)
(*     ("outer": the module-level loop, "loop": the run loop outside its   *)
(*     try block, "manual": __cycle_power called for the X key, "try":     *)
(*     inside the try block of run, which holds the readline and the       *)
(*     automatic __cycle_power).                                           *)
(*   - the daemon input thread running add_input; its position is tpc.     *)
(*                                                                         *)
(* Python exceptions are modelled by where they land: an IOError (a        *)
(* serial.SerialException is one) reaches the outer loop's handlers; a     *)
(* SystemExit or any other exception raised inside the try block of run is *)
(* taken by its bare "except:"; outside it, it ends the process.           *)
(*                                                                         *)
(* Signals (Ctrl-C / KeyboardInterrupt) and failures of the file system    *)
(* are not inputs of this model.  kernel_logger.py, the one-device variant *)
(* of the program, has the same add_input and __connect_device text; its   *)
(* run loop (no TX2, no heartbeat, no power cycle) is not modelled apart.  *)
(***************************************************************************)
EXTENDS Integers, Sequences, FiniteSets, TLC

VARIABLES
    pc,                 \* main thread: position in the code
    ctx,                \* main thread: the calling context (see above)
    ser,                \* ser[d]: TRUE iff device d .ser holds a Serial object
    handles,            \* handles[d]: Serial objects of d opened and not closed
    heartbeatReceived,  \* self.heartbeatReceived
    input_queue,        \* self.input_queue
    stop_queue,         \* self.stop_queue
    pause_queue,        \* self.pause_queue
    tpc,                \* input thread: position in add_input
    terminal,           \* mode of the operator's terminal
    errorFile,          \* output/errors.txt: its number of entries, and the last
    raised,             \* the IOError in flight to the outer loop, or "none"
    dataLog,            \* lines written to outputFile of the current session
    exit,               \* how the process ended, or "running"
    lastLine,           \* the value of `line` in this iteration, once read
    scen,               \* how much of Scenario the session has matched so far
    conn,               \* the current / last call of __connect_tx2 or _arduino
    cycTrace,           \* device operations of __cycle_power in this iteration
    typed,              \* the operator has typed a key
    began,              \* the first controller.connect() has begun
    order,              \* links handled so far by this connect() / disconnect()
    iterPops,           \* keystrokes taken so far in this iteration of run
    escFirst            \* the first key typed was Escape, before that connect

vars == <<pc, ctx, ser, handles, heartbeatReceived, input_queue, stop_queue,
          pause_queue, tpc, terminal, errorFile, raised, dataLog, exit,
          lastLine, scen, conn, cycTrace, typed, began, escFirst, order,
          iterPops>>

\* groups of variables, for the UNCHANGED clauses
links == <<ser, handles, heartbeatReceived>>
session == <<dataLog, lastLine, scen>>
thread == <<pause_queue, tpc, typed, escFirst>>

-----------------------------------------------------------------------------
(* Bounds of the model *)

\* most keystrokes waiting in input_queue
MaxQueue == 2
\* most entries written to the error file
MaxErr == 2
\* most lines written to the data log of one session
MaxLog == 2
\* most failed open attempts in one connect call
MaxFail == 3

-----------------------------------------------------------------------------
(* Program constants *)

KEY_ESC == 27
KEY_X == 88
KEY_P == 80

\* The keys the operator types: Escape, X, P and one key with no meaning (Enter).
Keys == {KEY_ESC, KEY_X, KEY_P, 13}

Devices == {"tx2", "arduino"}

\* Strings are sequences of characters.
SIGNAL_HEARTBEAT == <<"H", "E", "A", "R", "T", "B", "E", "A", "T">>
SIGNAL_POWER_CYCLE == "POWER_CYCLE\n"

\* What readline can return: b'' on a timeout, or bytes up to a newline.
\* "0xFF" stands for a byte that is not valid UTF-8.
RawLines ==
    { <<>>,
      <<"\r", "\n">>,
      SIGNAL_HEARTBEAT \o <<"\r", "\n">>,
      <<" ">> \o SIGNAL_HEARTBEAT \o <<"S", "\n">>,
      <<"h", "e", "l", "l", "o", "\n">>,
      <<"0xFF", "\n">> }

IOErrors == {"SerialException", "IOError"}

-----------------------------------------------------------------------------
(* Pure helpers *)

Whitespace == {" ", "\t", "\n", "\r", "\f"}

\* bytes.decode('utf-8'): fails on a byte that is not valid UTF-8
Decodable(b) == \A i \in 1..Len(b) : b[i] # "0xFF"

RECURSIVE LStrip(_)
LStrip(s) ==
    IF s # <<>> /\ Head(s) \in Whitespace THEN LStrip(Tail(s)) ELSE s

RECURSIVE RStrip(_)
RStrip(s) ==
    IF s # <<>> /\ s[Len(s)] \in Whitespace
    THEN RStrip(SubSeq(s, 1, Len(s) - 1))
    ELSE s

\* str.strip()
Strip(s) == RStrip(LStrip(s))

NoConn == [dev |-> "none", attempts |-> 0, fails |-> 0, notices |-> 0,
           confirms |-> 0, popped |-> 0]

\* The scenario of the specification: the lines fed to one session, with no
\* operator input.
Scenario ==
    << <<>>, <<>>, SIGNAL_HEARTBEAT, <<"h", "e", "l", "l", "o">>, <<>> >>

\* scen after the session has read `line`
ScenAfter(line) ==
    IF scen >= 0 /\ scen < Len(Scenario) /\ line = Scenario[scen + 1]
    THEN scen + 1
    ELSE -1

-----------------------------------------------------------------------------
Init ==
    /\ pc = "sleep"
    /\ ctx = "outer"
    /\ ser = [d \in Devices |-> FALSE]
    /\ handles = [d \in Devices |-> 0]
    /\ heartbeatReceived = FALSE
    /\ input_queue = <<>>
    /\ stop_queue = <<>>
    /\ pause_queue = <<>>
    /\ tpc = "getch"
    /\ terminal = "cbreak"
    /\ errorFile = [n |-> 0, last |-> "none"]
    /\ raised = "none"
    /\ dataLog = <<>>
    /\ exit = "running"
    /\ lastLine = <<>>
    /\ scen = -1
    /\ conn = NoConn
    /\ cycTrace = <<>>
    /\ typed = FALSE
    /\ began = FALSE
    /\ escFirst = FALSE
    /\ order = <<>>
    /\ iterPops = 0

-----------------------------------------------------------------------------
(* Where control goes: each of these sets pc, ctx, exit, errorFile, raised *)

Goto(p, c) ==
    /\ pc' = p
    /\ ctx' = c
    /\ UNCHANGED <<exit, errorFile, raised>>

\* run, the bare "except:" of the try block: log GENERAL ERROR and carry on
\* with the next iteration of the while loop.
GeneralError ==
    /\ errorFile.n < MaxErr
    /\ errorFile' = [n |-> errorFile.n + 1, last |-> "GENERAL ERROR"]
    /\ pc' = "loop"
    /\ ctx' = "loop"
    /\ UNCHANGED <<exit, raised>>

\* An exception no handler takes: the interpreter prints a traceback and the
\* process ends (with status 1).
Uncaught ==
    /\ pc' = "exited"
    /\ exit' = "traceback"
    /\ UNCHANGED <<ctx, errorFile, raised>>

\* sys.exit(1) that reaches the top: the process ends with status 1.
Exit1 ==
    /\ pc' = "exited"
    /\ exit' = "sys.exit(1)"
    /\ UNCHANGED <<ctx, errorFile, raised>>

\* (mutant) the bare "except:" of run takes the IOError too
PropagateIOError_Swallowed ==
    /\ errorFile.n < MaxErr
    /\ IF ctx = "try"
       THEN /\ errorFile' = [n |-> errorFile.n + 1, last |-> "GENERAL ERROR"]
            /\ pc' = "loop"
            /\ ctx' = "loop"
            /\ UNCHANGED exit
       ELSE /\ pc' = "except"
            /\ ctx' = "outer"
            /\ UNCHANGED <<exit, errorFile>>

\* Where an IOError goes.  Inside the try block of run it is re-raised by
\* "except IOError as e: raise e"; either way it leaves run and reaches the
\* handlers of the outer loop.  (The links fail at most MaxErr times: no
\* failure happens that the error file has no room to record.)
PropagateIOError ==
    /\ errorFile.n < MaxErr
    /\ pc' = "except"
    /\ ctx' = "outer"
    /\ UNCHANGED <<exit, errorFile>>

\* An IOError e raised by a device call
RaiseIOError(e) ==
    /\ raised' = e
    /\ PropagateIOError

\* Any exception that is neither an IOError nor SystemExit (AttributeError on
\* None, TypeError, UnicodeDecodeError).
RaiseOther == IF ctx = "try" THEN GeneralError ELSE Uncaught

\* SystemExit raised by sys.exit(1): a BaseException, which the bare
\* "except:" of run also takes.
RaiseSystemExit == IF ctx = "try" THEN GeneralError ELSE Exit1

\* The three statements of every Escape branch:
\* self.stop_queue.put('stop'); self.cleanUp(); sys.exit(1)
EscapeExit ==
    /\ stop_queue' = Append(stop_queue, "stop")
    /\ terminal' = "restored"
    /\ RaiseSystemExit

-----------------------------------------------------------------------------
(* Device links *)

\* (mutant) heartbeatReceived is not reset
disconnect_tx2_KeepsHeartbeat ==
    IF ser["tx2"]
    THEN /\ ser' = [ser EXCEPT !["tx2"] = FALSE]
         /\ handles' = [handles EXCEPT !["tx2"] = @ - 1]
         /\ UNCHANGED heartbeatReceived
    ELSE UNCHANGED <<ser, handles, heartbeatReceived>>

\* (mutant) the Serial object is dropped without close()
disconnect_tx2_NoClose ==
    IF ser["tx2"]
    THEN /\ ser' = [ser EXCEPT !["tx2"] = FALSE]
         /\ heartbeatReceived' = FALSE
         /\ UNCHANGED handles
    ELSE UNCHANGED <<ser, handles, heartbeatReceived>>

\* __disconnect_tx2
disconnect_tx2 ==
    IF ser["tx2"]
    THEN /\ ser' = [ser EXCEPT !["tx2"] = FALSE]
         /\ handles' = [handles EXCEPT !["tx2"] = @ - 1]
         /\ heartbeatReceived' = FALSE
    ELSE UNCHANGED <<ser, handles, heartbeatReceived>>

\* __disconnect_arduino
disconnect_arduino ==
    /\ IF ser["arduino"]
       THEN /\ ser' = [ser EXCEPT !["arduino"] = FALSE]
            /\ handles' = [handles EXCEPT !["arduino"] = @ - 1]
       ELSE UNCHANGED <<ser, handles>>
    /\ UNCHANGED heartbeatReceived

\* The main thread is inside __connect_tx2 / __connect_arduino
ConnectPcs == {"conn_tx2", "conn_ard", "open", "retry", "ret"}

\* __cycle_power is running (for the X key, or for a liveness failure)
InCycle ==
    \/ pc \in {"cyc_disc", "cyc_write"}
    \/ pc \in ConnectPcs /\ ctx \in {"manual", "try"}

-----------------------------------------------------------------------------
(* The outer loop and connect *)

\* (mutant) connect() begins with the Arduino link
Sleep_ArduinoFirst ==
    /\ pc = "sleep"
    /\ Goto("conn_ard", "outer")
    /\ began' = TRUE
    /\ order' = <<>>
    /\ UNCHANGED <<links, session, thread, input_queue, stop_queue, terminal,
                   conn, cycTrace, iterPops>>

\* time.sleep(1), then controller.connect() is entered
Sleep ==
    /\ pc = "sleep"
    /\ Goto("conn_tx2", "outer")
    /\ began' = TRUE
    /\ order' = <<>>
    /\ UNCHANGED <<links, session, thread, input_queue, stop_queue, terminal,
                   conn, cycTrace, iterPops>>

\* __connect_tx2 / __connect_arduino up to the first test of
\* "while not device.ser"
ConnectEnter(d) ==
    /\ pc = (IF d = "tx2" THEN "conn_tx2" ELSE "conn_ard")
    /\ conn' = [NoConn EXCEPT !.dev = d]
    /\ Goto(IF ser[d] THEN "ret" ELSE "open", ctx)
    /\ order' = IF ctx = "outer" THEN Append(order, d) ELSE order
    /\ UNCHANGED <<links, session, thread, input_queue, stop_queue, terminal,
                   cycTrace, began, iterPops>>

\* One attempt of serial.Serial(...): ok says whether the port opens.  A
\* failure prints the retry notice and goes to the sleep of the retry.
OpenAttempt(ok) ==
    /\ pc = "open"
    /\ cycTrace' = IF InCycle THEN Append(cycTrace, "open") ELSE cycTrace
    /\ IF ok
       THEN /\ ser' = [ser EXCEPT ![conn.dev] = TRUE]
            /\ handles' = [handles EXCEPT ![conn.dev] = @ + 1]
            /\ conn' = [conn EXCEPT !.attempts = @ + 1]
            /\ Goto("ret", ctx)
       ELSE /\ conn.fails < MaxFail
            /\ ser' = [ser EXCEPT ![conn.dev] = FALSE]
            /\ UNCHANGED handles
            /\ conn' = [conn EXCEPT !.attempts = @ + 1, !.fails = @ + 1,
                                    !.notices = @ + 1]
            /\ Goto("retry", ctx)
    /\ UNCHANGED <<heartbeatReceived, session, thread, input_queue,
                   stop_queue, terminal, began, order, iterPops>>

\* (mutant) the loop is left after the first failed attempt
RetryPoll_GivesUp ==
    /\ pc = "retry"
    /\ IF input_queue = <<>>
       THEN /\ Goto("ret", ctx)
            /\ UNCHANGED <<input_queue, stop_queue, terminal, conn>>
       ELSE /\ input_queue' = Tail(input_queue)
            /\ conn' = [conn EXCEPT !.popped = @ + 1]
            /\ IF Head(input_queue) = KEY_ESC
               THEN EscapeExit
               ELSE /\ Goto("ret", ctx)
                    /\ UNCHANGED <<stop_queue, terminal>>
    /\ iterPops' = IF input_queue # <<>> /\ ctx # "outer"
                   THEN iterPops + 1 ELSE iterPops
    /\ UNCHANGED <<links, session, thread, cycTrace, began, order>>

\* (mutant) a key other than Escape is taken and the retry goes on
RetryPoll_IgnoresKey ==
    /\ pc = "retry"
    /\ IF input_queue = <<>>
       THEN /\ Goto("open", ctx)
            /\ UNCHANGED <<input_queue, stop_queue, terminal, conn>>
       ELSE /\ input_queue' = Tail(input_queue)
            /\ conn' = [conn EXCEPT !.popped = @ + 1]
            /\ IF Head(input_queue) = KEY_ESC
               THEN EscapeExit
               ELSE /\ Goto("open", ctx)
                    /\ UNCHANGED <<stop_queue, terminal>>
    /\ iterPops' = IF input_queue # <<>> /\ ctx # "outer"
                   THEN iterPops + 1 ELSE iterPops
    /\ UNCHANGED <<links, session, thread, cycTrace, began, order>>

\* (mutant) the poll empties input_queue and acts on the first key only
RetryPoll_DrainsQueue ==
    /\ pc = "retry"
    /\ IF input_queue = <<>>
       THEN /\ Goto("open", ctx)
            /\ UNCHANGED <<input_queue, stop_queue, terminal, conn>>
       ELSE /\ input_queue' = <<>>
            /\ conn' = [conn EXCEPT !.popped = @ + Len(input_queue)]
            /\ IF Head(input_queue) = KEY_ESC
               THEN EscapeExit
               ELSE /\ Goto("ret", ctx)
                    /\ UNCHANGED <<stop_queue, terminal>>
    /\ iterPops' = IF input_queue # <<>> /\ ctx # "outer"
                   THEN iterPops + Len(input_queue) ELSE iterPops
    /\ UNCHANGED <<links, session, thread, cycTrace, began, order>>

\* After the sleep of a retry: poll input_queue once.
RetryPoll ==
    /\ pc = "retry"
    /\ IF input_queue = <<>>
       THEN /\ Goto("open", ctx)
            /\ UNCHANGED <<input_queue, stop_queue, terminal, conn>>
       ELSE /\ input_queue' = Tail(input_queue)
            /\ conn' = [conn EXCEPT !.popped = @ + 1]
            /\ IF Head(input_queue) = KEY_ESC
               THEN EscapeExit
               ELSE /\ Goto("ret", ctx)
                    /\ UNCHANGED <<stop_queue, terminal>>
    /\ iterPops' = IF input_queue # <<>> /\ ctx # "outer"
                   THEN iterPops + 1 ELSE iterPops
    /\ UNCHANGED <<links, session, thread, cycTrace, began, order>>

\* print("Connected!\n") and the return to the caller
ConnectReturn ==
    /\ pc = "ret"
    /\ conn' = [conn EXCEPT !.confirms = @ + 1]
    /\ IF ctx = "outer"
       THEN Goto(IF conn.dev = "tx2" THEN "conn_ard" ELSE "run", "outer")
       ELSE IF ctx = "manual"
            THEN Goto("read", "try")
            ELSE Goto("notresp", "try")
    /\ UNCHANGED <<links, session, thread, input_queue, stop_queue, terminal,
                   cycTrace, began, order, iterPops>>

\* The handlers of the outer loop ("except serial.SerialException" and
\* "except IOError"): one entry in the error file.  The exception has left
\* the with blocks of run, which closed the session's files; the iteration
\* and the __cycle_power it interrupted are over.
Except ==
    /\ pc = "except"
    /\ errorFile.n < MaxErr
    /\ errorFile' = [n |-> errorFile.n + 1,
                     last |-> IF raised = "SerialException"
                              THEN "Serial Exception: " ELSE "IO Error: "]
    /\ raised' = "none"
    /\ pc' = "disc_tx2"
    /\ dataLog' = <<>>
    /\ lastLine' = <<>>
    /\ scen' = -1
    /\ cycTrace' = <<>>
    /\ UNCHANGED <<ctx, exit>>
    /\ order' = <<>>
    /\ iterPops' = 0
    /\ UNCHANGED <<links, thread, input_queue, stop_queue, terminal, conn,
                   began>>

\* controller.disconnect(), first half
DisconnectTx2 ==
    /\ pc = "disc_tx2"
    /\ disconnect_tx2
    /\ Goto("disc_ard", "outer")
    /\ order' = Append(order, "tx2")
    /\ UNCHANGED <<session, thread, input_queue, stop_queue, terminal, conn,
                   cycTrace, began, iterPops>>

\* controller.disconnect(), second half
DisconnectArduino ==
    /\ pc = "disc_ard"
    /\ disconnect_arduino
    /\ Goto("sleep", "outer")
    /\ order' = Append(order, "arduino")
    /\ UNCHANGED <<session, thread, input_queue, stop_queue, terminal, conn,
                   cycTrace, began, iterPops>>

-----------------------------------------------------------------------------
(* run *)

\* run up to the while loop: flushInput on both links (an AttributeError when
\* a .ser is None, and the outer loop has no handler for that), then the two
\* output files of the session are created.
RunStart ==
    /\ pc = "run"
    /\ conn' = NoConn
    /\ IF ~ser["tx2"] \/ ~ser["arduino"]
       THEN /\ Uncaught
            /\ UNCHANGED session
       ELSE \E r \in {"ok"} \cup IOErrors :
                IF r = "ok"
                THEN /\ dataLog' = <<>>
                     /\ lastLine' = <<>>
                     /\ scen' = 0
                     /\ Goto("loop", "loop")
                ELSE /\ RaiseIOError(r)
                     /\ UNCHANGED session
    /\ UNCHANGED <<links, thread, input_queue, stop_queue, terminal, cycTrace,
                   began, order, iterPops>>

\* __power_on: one write of SIGNAL_POWER_ON to the Arduino link, with result
\* w.
power_on(w) ==
    IF ~ser["arduino"]
    THEN Uncaught
    ELSE IF w = "ok" THEN Goto("read", "try") ELSE RaiseIOError(w)

\* (mutant) the run loop has no Escape branch
HandleKey_IgnoresEscape(k, w) ==
    /\ UNCHANGED <<stop_queue, terminal>>
    /\ IF k = KEY_X
       THEN Goto("cyc_disc", "manual")
       ELSE IF k = KEY_P
            THEN power_on(w)
            ELSE Goto("read", "try")

\* (mutant) the X key has no branch
HandleKey_DropsX(k, w) ==
    IF k = KEY_ESC
    THEN EscapeExit
    ELSE /\ UNCHANGED <<stop_queue, terminal>>
         /\ IF k = KEY_P
            THEN power_on(w)
            ELSE Goto("read", "try")

\* What the run loop does with the keystroke k it has just taken (w: the
\* result of the write that the P key makes).
HandleKey(k, w) ==
    IF k = KEY_ESC
    THEN EscapeExit
    ELSE /\ UNCHANGED <<stop_queue, terminal>>
         /\ IF k = KEY_X
            THEN Goto("cyc_disc", "manual")
            ELSE IF k = KEY_P
                 THEN power_on(w)
                 ELSE Goto("read", "try")

\* (mutant) the run loop takes the newest keystroke, not the oldest
LoopKey_TakesNewest ==
    /\ pc = "loop"
    /\ IF input_queue = <<>>
       THEN /\ Goto("read", "try")
            /\ scen' = IF scen = Len(Scenario) THEN -1 ELSE scen
            /\ UNCHANGED <<input_queue, stop_queue, terminal>>
       ELSE /\ input_queue' = SubSeq(input_queue, 1, Len(input_queue) - 1)
            /\ scen' = -1
            /\ \E w \in {"ok"} \cup IOErrors :
                 /\ (w # "ok" => input_queue[Len(input_queue)] = KEY_P)
                 /\ HandleKey(input_queue[Len(input_queue)], w)
    /\ lastLine' = <<>>
    /\ cycTrace' = <<>>
    /\ iterPops' = IF input_queue = <<>> THEN 0 ELSE 1
    /\ UNCHANGED <<links, thread, dataLog, conn, began, order>>

\* Top of the while loop of run: a new iteration begins; take at most one
\* keystroke and act on it.
LoopKey ==
    /\ pc = "loop"
    /\ IF input_queue = <<>>
       THEN /\ Goto("read", "try")
            /\ scen' = IF scen = Len(Scenario) THEN -1 ELSE scen
            /\ UNCHANGED <<input_queue, stop_queue, terminal>>
       ELSE /\ input_queue' = Tail(input_queue)
            /\ scen' = -1
            /\ \E w \in {"ok"} \cup IOErrors :
                 /\ (w # "ok" => Head(input_queue) = KEY_P)
                 /\ HandleKey(Head(input_queue), w)
    /\ lastLine' = <<>>
    /\ cycTrace' = <<>>
    /\ iterPops' = IF input_queue = <<>> THEN 0 ELSE 1
    /\ UNCHANGED <<links, thread, dataLog, conn, began, order>>

\* __cycle_power, first statement: self.__disconnect_tx2()
CycDisconnect ==
    /\ pc = "cyc_disc"
    /\ cycTrace' = IF ser["tx2"] THEN Append(cycTrace, "close") ELSE cycTrace
    /\ disconnect_tx2
    /\ Goto("cyc_write", ctx)
    /\ UNCHANGED <<session, thread, input_queue, stop_queue, terminal, conn,
                   began, order, iterPops>>

\* __cycle_power, second statement: the write of POWER_CYCLE to the Arduino
\* link, with result w; then __connect_tx2 is entered.
CycWrite ==
    /\ pc = "cyc_write"
    /\ IF ~ser["arduino"]
       THEN RaiseOther /\ UNCHANGED cycTrace
       ELSE /\ cycTrace' = Append(cycTrace, SIGNAL_POWER_CYCLE)
            /\ \E w \in {"ok"} \cup IOErrors :
                 IF w = "ok" THEN Goto("conn_tx2", ctx) ELSE RaiseIOError(w)
    /\ UNCHANGED <<links, session, thread, input_queue, stop_queue, terminal,
                   conn, began, order, iterPops>>

\* (mutant) every empty line is taken for a liveness failure
HandleLine_AlwaysCycle(line) ==
    /\ lastLine' = <<line>>
    /\ scen' = ScenAfter(line)
    /\ IF line = <<>>
       THEN /\ Goto("cyc_disc", "try")
            /\ UNCHANGED <<cycTrace, heartbeatReceived, dataLog>>
       ELSE IF line = SIGNAL_HEARTBEAT
            THEN /\ heartbeatReceived' = TRUE
                 /\ Goto("loop", "loop")
                 /\ cycTrace' = <<>>
                 /\ UNCHANGED dataLog
            ELSE /\ Len(dataLog) < MaxLog
                 /\ dataLog' = Append(dataLog, line)
                 /\ Goto("loop", "loop")
                 /\ cycTrace' = <<>>
                 /\ UNCHANGED heartbeatReceived

\* (mutant) a line that begins with the marker is taken for the marker
HandleLine_PrefixMatch(line) ==
    /\ lastLine' = <<line>>
    /\ scen' = ScenAfter(line)
    /\ IF line = <<>>
       THEN /\ IF heartbeatReceived
               THEN Goto("cyc_disc", "try") /\ UNCHANGED cycTrace
               ELSE Goto("loop", "loop") /\ cycTrace' = <<>>
            /\ UNCHANGED <<heartbeatReceived, dataLog>>
       ELSE IF /\ Len(line) >= Len(SIGNAL_HEARTBEAT)
               /\ SubSeq(line, 1, Len(SIGNAL_HEARTBEAT)) = SIGNAL_HEARTBEAT
            THEN /\ heartbeatReceived' = TRUE
                 /\ Goto("loop", "loop")
                 /\ cycTrace' = <<>>
                 /\ UNCHANGED dataLog
            ELSE /\ Len(dataLog) < MaxLog
                 /\ dataLog' = Append(dataLog, line)
                 /\ Goto("loop", "loop")
                 /\ cycTrace' = <<>>
                 /\ UNCHANGED heartbeatReceived

\* (mutant) the marker lines are written to the data log as well
HandleLine_LogsHeartbeat(line) ==
    /\ lastLine' = <<line>>
    /\ scen' = ScenAfter(line)
    /\ IF line = <<>>
       THEN /\ IF heartbeatReceived
               THEN Goto("cyc_disc", "try") /\ UNCHANGED cycTrace
               ELSE Goto("loop", "loop") /\ cycTrace' = <<>>
            /\ UNCHANGED <<heartbeatReceived, dataLog>>
       ELSE /\ Len(dataLog) < MaxLog
            /\ dataLog' = Append(dataLog, line)
            /\ heartbeatReceived' =
                   (heartbeatReceived \/ line = SIGNAL_HEARTBEAT)
            /\ Goto("loop", "loop")
            /\ cycTrace' = <<>>

\* What run does with the decoded and stripped line it has read.
\* (The read of the kernel log that follows, self.arduino.readline(), is a
\* call of a method Device does not have: its AttributeError is swallowed by
\* the inner bare except, and the kernel log file is never written.)
HandleLine(line) ==
    /\ lastLine' = <<line>>
    /\ scen' = ScenAfter(line)
    /\ IF line = <<>>
       THEN /\ IF heartbeatReceived
               THEN Goto("cyc_disc", "try") /\ UNCHANGED cycTrace
               ELSE Goto("loop", "loop") /\ cycTrace' = <<>>
            /\ UNCHANGED <<heartbeatReceived, dataLog>>
       ELSE IF line = SIGNAL_HEARTBEAT
            THEN /\ heartbeatReceived' = TRUE
                 /\ Goto("loop", "loop")
                 /\ cycTrace' = <<>>
                 /\ UNCHANGED dataLog
            ELSE /\ Len(dataLog) < MaxLog
                 /\ dataLog' = Append(dataLog, line)
                 /\ Goto("loop", "loop")
                 /\ cycTrace' = <<>>
                 /\ UNCHANGED heartbeatReceived

\* The try block of run: self.tx2.ser.readline() (an AttributeError when
\* tx2.ser is None), decode, strip, and the branch on the line.
Read ==
    /\ pc = "read"
    /\ conn' = NoConn
    /\ IF ~ser["tx2"]
       THEN /\ RaiseOther
            /\ scen' = -1
            /\ cycTrace' = <<>>
            /\ UNCHANGED <<heartbeatReceived, dataLog, lastLine>>
       ELSE \/ \E e \in IOErrors :
                 /\ RaiseIOError(e)
                 /\ scen' = -1
                 /\ cycTrace' = <<>>
                 /\ UNCHANGED <<heartbeatReceived, dataLog, lastLine>>
            \/ \E r \in RawLines :
                 IF ~Decodable(r)
                 THEN /\ RaiseOther
                      /\ scen' = -1
                      /\ cycTrace' = <<>>
                      /\ UNCHANGED <<heartbeatReceived, dataLog, lastLine>>
                 ELSE HandleLine(Strip(r))
    /\ UNCHANGED <<ser, handles, thread, input_queue, stop_queue, terminal,
                   began, order, iterPops>>

\* run, after the automatic __cycle_power has returned: the statement
\* errorFile.write("[" + ... + "Not Responding: " + + "\n") applies unary plus
\* to a str, a TypeError.
NotResponding ==
    /\ pc = "notresp"
    /\ conn' = NoConn
    /\ RaiseOther
    /\ cycTrace' = <<>>
    /\ UNCHANGED <<links, session, thread, input_queue, stop_queue, terminal,
                   began, order, iterPops>>

-----------------------------------------------------------------------------
(* The input thread: add_input *)

\* input_queue.put(self.getch()): the operator types key k.  getch leaves
\* the terminal with the settings saved at construction.
InputKey(k) ==
    /\ tpc = "getch"
    /\ pc # "exited"
    /\ Len(input_queue) < MaxQueue
    /\ input_queue' = Append(input_queue, k)
    /\ terminal' = "restored"
    /\ tpc' = "check"
    /\ typed' = TRUE
    /\ escFirst' = (IF typed THEN escFirst ELSE (k = KEY_ESC /\ ~began))
    /\ UNCHANGED <<pc, ctx, exit, errorFile, raised, links, session,
                   stop_queue, pause_queue, conn, cycTrace, began, order,
                   iterPops>>

\* The rest of the loop body of add_input: the test of pause_queue (nothing
\* ever puts to it), the test of stop_queue, and the entry of the next getch,
\* which sets the terminal to cbreak mode.
InputCheck ==
    /\ tpc = "check"
    /\ pc # "exited"
    /\ pause_queue = <<>>
    /\ IF stop_queue # <<>>
       THEN /\ stop_queue' = Tail(stop_queue)
            /\ tpc' = "done"
            /\ UNCHANGED terminal
       ELSE /\ tpc' = "getch"
            /\ terminal' = "cbreak"
            /\ UNCHANGED stop_queue
    /\ UNCHANGED <<pc, ctx, exit, errorFile, raised, links, session,
                   input_queue, pause_queue, typed, escFirst, conn, cycTrace,
                   began, order, iterPops>>

-----------------------------------------------------------------------------
Next ==
    \/ Sleep
    \/ \E d \in Devices : ConnectEnter(d)
    \/ \E ok \in BOOLEAN : OpenAttempt(ok)
    \/ RetryPoll
    \/ ConnectReturn
    \/ RunStart
    \/ LoopKey
    \/ CycDisconnect
    \/ CycWrite
    \/ Read
    \/ NotResponding
    \/ Except
    \/ DisconnectTx2
    \/ DisconnectArduino
    \/ \E k \in Keys : InputKey(k)
    \/ InputCheck

Spec == Init /\ [][Next]_vars

\* The steps of the main thread, which runs whenever it can: its only waits
\* are the bounded sleeps and the reads with a timeout.
Main ==
    \/ Sleep
    \/ \E d \in Devices : ConnectEnter(d)
    \/ \E ok \in BOOLEAN : OpenAttempt(ok)
    \/ RetryPoll
    \/ ConnectReturn
    \/ RunStart
    \/ LoopKey
    \/ CycDisconnect
    \/ CycWrite
    \/ Read
    \/ NotResponding
    \/ Except
    \/ DisconnectTx2
    \/ DisconnectArduino

FairSpec == Spec /\ WF_vars(Main)

-----------------------------------------------------------------------------
(* Properties *)

\* The main thread takes an Escape keystroke from input_queue in this step.
PopsEscape ==
    /\ input_queue # <<>>
    /\ Head(input_queue) = KEY_ESC
    /\ input_queue' = Tail(input_queue)

\* The run loop reads the line l (decoded and stripped) in this step.
ReadsLine(l) ==
    /\ pc = "read"
    /\ lastLine = <<>>
    /\ lastLine' = <<l>>

\* The run loop reads some line in this step.
ReadsALine ==
    /\ pc = "read"
    /\ lastLine = <<>>
    /\ lastLine' # <<>>

\* The number of POWER_CYCLE writes in a trace of device operations
Writes(t) == Cardinality({i \in 1..Len(t) : t[i] = SIGNAL_POWER_CYCLE})

\* C1: whenever the main thread takes an Escape keystroke from the queue, at
\* any place that takes it, the terminal is restored and the process ends
\* with exit code 1 in that very step, before any other iteration or read.
C1_EscapeTerminates ==
    [][PopsEscape =>
          /\ pc' = "exited"
          /\ exit' = "sys.exit(1)"
          /\ terminal' = "restored"]_vars

\* C2: an empty read while heartbeatReceived is false starts no power cycle
\* and changes no state of the program; an empty read while it is true
\* starts the power cycle, which makes exactly one POWER_CYCLE write in that
\* iteration.
C2_Step ==
    /\ (ReadsLine(<<>>) /\ ~heartbeatReceived) =>
          /\ pc' = "loop"
          /\ cycTrace' = <<>>
          /\ UNCHANGED <<ser, handles, heartbeatReceived, dataLog, errorFile,
                         input_queue, stop_queue, terminal, exit>>
    /\ (ReadsLine(<<>>) /\ heartbeatReceived) =>
          /\ pc' = "cyc_disc"
          /\ ctx' = "try"
          /\ Writes(cycTrace') = 0
    /\ (ctx = "try" /\ pc = "cyc_disc" /\ pc' # pc) =>
          /\ pc' = "cyc_write"
          /\ ctx' = "try"
          /\ Writes(cycTrace') = 0
    /\ (ctx = "try" /\ pc = "cyc_write" /\ pc' # pc) =>
          Writes(cycTrace') = 1
    /\ (ctx = "try" /\ pc \in ConnectPcs) =>
          Writes(cycTrace') = 1

\* C2: every step of the program is a C2_Step: an empty read without the
\* heartbeat changes nothing, an empty read with it makes one POWER_CYCLE
\* write.
C2_EmptyRead == [][C2_Step]_vars

\* C2 witness: an automatic power cycle has made its write.
C2_Witness ==
    /\ ctx = "try"
    /\ pc = "conn_tx2"
    /\ lastLine = << <<>> >>
    /\ Writes(cycTrace) = 1

\* C3 as stated: heartbeatReceived becomes true only on a line equal to
\* HEARTBEAT, and once true it never becomes false again.
C3_NeverReverts ==
    [][/\ (~heartbeatReceived /\ heartbeatReceived') =>
              ReadsLine(SIGNAL_HEARTBEAT)
       /\ heartbeatReceived => heartbeatReceived']_vars

\* C3 as amended: heartbeatReceived becomes true exactly on a read line that
\* equals HEARTBEAT (any other line leaves it as it is), and it becomes false
\* again exactly in the steps that disconnect the TX2 link.
C3_Step ==
    /\ (~heartbeatReceived /\ heartbeatReceived') =>
          ReadsLine(SIGNAL_HEARTBEAT)
    /\ ReadsLine(SIGNAL_HEARTBEAT) => heartbeatReceived'
    /\ (ReadsALine /\ ~ReadsLine(SIGNAL_HEARTBEAT)) =>
          heartbeatReceived' = heartbeatReceived
    /\ (heartbeatReceived /\ ~heartbeatReceived') =>
          (ser["tx2"] /\ ~ser'["tx2"])
    /\ (ser["tx2"] /\ ~ser'["tx2"]) => ~heartbeatReceived'

\* C3 (amended): every step of the program is a C3_Step: heartbeatReceived
\* rises exactly on a HEARTBEAT line and falls exactly when the TX2 link is
\* disconnected.
C3_HeartbeatTransitions == [][C3_Step]_vars

\* C3 witness: a liveness failure has disconnected the TX2 link and the state
\* is back to awaiting the heartbeat.
C3_Witness ==
    /\ ctx = "try"
    /\ pc = "cyc_write"
    /\ cycTrace = <<"close">>
    /\ ~heartbeatReceived

\* The device operations of a power cycle are in order: a close only as the
\* first, the write only after nothing but the close, opens only after the
\* write.
Ordered(t) ==
    \A i \in 1..Len(t) :
        /\ t[i] = "close" => i = 1
        /\ t[i] = SIGNAL_POWER_CYCLE => \A j \in 1..(i - 1) : t[j] = "close"
        /\ t[i] = "open" => \E j \in 1..(i - 1) : t[j] = SIGNAL_POWER_CYCLE

\* C4: every power cycle, manual or automatic, closes the TX2 link (if it is
\* open), then writes POWER_CYCLE, then makes its open attempts; the TX2 link
\* is closed and heartbeatReceived is false when the write is made, and
\* heartbeatReceived stays false until a HEARTBEAT line is read.
C4_Step ==
    /\ Ordered(cycTrace')
    /\ (cycTrace' = Append(cycTrace, SIGNAL_POWER_CYCLE)) =>
          /\ ~ser["tx2"]
          /\ ~heartbeatReceived
          /\ ~heartbeatReceived'
    /\ (~heartbeatReceived /\ heartbeatReceived') =>
          (ReadsLine(SIGNAL_HEARTBEAT) /\ ~InCycle /\ ~InCycle')
    /\ (InCycle' /\ pc' \in ConnectPcs) => Writes(cycTrace') = 1

\* C4: every step of the program is a C4_Step: close, then write, then open,
\* with heartbeatReceived false from the write until a HEARTBEAT line.
C4_PowerCycleOrder == [][C4_Step]_vars

\* C4 witness: a power cycle that closed the link, wrote, and failed to open
\* once before it opened the link.
C4_Witness ==
    /\ cycTrace = <<"close", SIGNAL_POWER_CYCLE, "open", "open">>
    /\ ser["tx2"]

\* C5: a connect in which no keystroke is taken returns with the link
\* connected, after one open attempt more than the number of failed ones, one
\* retry notice per failed attempt, and one "Connected!".
C5_ConnectRetries ==
    /\ conn.notices = conn.fails
    /\ (conn.confirms > 0 /\ conn.popped = 0) =>
          /\ conn.attempts = conn.fails + 1
          /\ conn.confirms = 1
          /\ ser[conn.dev]

\* C5 witness: a connect that failed three times and then succeeded
C5_Witness ==
    /\ conn.confirms = 1
    /\ conn.popped = 0
    /\ conn.fails = 3
    /\ conn.attempts = 4
    /\ conn.notices = 3

\* C6: when the first key typed is Escape and it is typed before the first
\* connect begins, then until the process has ended with exit code 1 the
\* Escape is still the head of the queue and the main thread is in the outer
\* loop, in connect, or at the top of the run loop, so no readline has been
\* called; and the process does end.
C6_Inv ==
    escFirst =>
       \/ pc = "exited" /\ exit = "sys.exit(1)" /\ terminal = "restored"
       \/ /\ input_queue # <<>>
          /\ Head(input_queue) = KEY_ESC
          /\ ctx \in {"outer", "loop"}
          /\ pc \in ConnectPcs \cup {"sleep", "run", "loop", "except",
                                    "disc_tx2", "disc_ard"}

\* C6: C6_Inv holds in every state, and under fair scheduling of the main
\* thread an Escape typed first leads to the end of the process.
C6_EscapeFirst == [] C6_Inv /\ (escFirst ~> (pc = "exited"))

\* C6 witness: both links opened at once, and the Escape typed first ended
\* the process at the top of the run loop.
C6_Witness ==
    /\ escFirst
    /\ pc = "exited"
    /\ ser["tx2"]
    /\ ser["arduino"]

\* C7: the process ends only by sys.exit(1), the Escape branch.
C7_ExitOnlyByEscape == pc = "exited" => exit = "sys.exit(1)"

\* C8: an IOError raised by a device call is in flight only at the handlers
\* of the outer loop; the handler writes one entry to the error file, then
\* both links are disconnected (heartbeatReceived false), then the next
\* delay / connect / run cycle starts.
C8_Step ==
    /\ (raised' # "none") => pc' = "except"
    /\ (pc = "except" /\ pc' # pc) =>
          /\ errorFile'.n = errorFile.n + 1
          /\ errorFile'.last =
                (IF raised = "SerialException"
                 THEN "Serial Exception: " ELSE "IO Error: ")
          /\ pc' = "disc_tx2"
    /\ (pc = "disc_tx2" /\ pc' # pc) => (pc' = "disc_ard" /\ ~ser'["tx2"])
    /\ (pc = "disc_ard" /\ pc' # pc) =>
          /\ pc' = "sleep"
          /\ ~ser'["tx2"]
          /\ ~ser'["arduino"]
          /\ ~heartbeatReceived'
    /\ (pc = "sleep" /\ pc' # pc) => pc' = "conn_tx2"

\* C8: every step of the program is a C8_Step: an IOError reaches the outer
\* handler, which logs one entry, disconnects both links and starts over.
C8_IOErrorRestarts == [][C8_Step]_vars

\* C8 witness: the POWER_CYCLE write of a power cycle has failed, and the
\* error is at the outer handler.
C8_Witness ==
    /\ pc = "except"
    /\ raised = "SerialException"
    /\ cycTrace = <<"close", SIGNAL_POWER_CYCLE>>

\* The lines run writes to the data log: not empty, not the marker
Loggable(l) == l # <<>> /\ l # SIGNAL_HEARTBEAT

\* C9: every line read that is neither empty nor HEARTBEAT is appended to the
\* data log when it is read, nothing else is ever added, and within a session
\* nothing is removed; the scenario "", "", HEARTBEAT, hello, "" gives two
\* ignored reads, the heartbeat, hello in the log, and one power cycle.
C9_Step ==
    /\ ReadsALine =>
          dataLog' = (IF Loggable(lastLine'[1])
                      THEN Append(dataLog, lastLine'[1])
                      ELSE dataLog)
    /\ (dataLog' # dataLog) =>
          \/ ReadsALine
          \/ dataLog' = <<>> /\ pc \in {"run", "except"}
    /\ \A i \in 1..Len(dataLog') : Loggable(dataLog'[i])
    /\ scen' \in {1, 2} =>
          /\ ~heartbeatReceived'
          /\ dataLog' = <<>>
          /\ pc' \in {"loop", "read"}
    /\ scen' = 3 => (heartbeatReceived' /\ dataLog' = <<>>)
    /\ scen' = 4 => (heartbeatReceived' /\ dataLog' = <<Scenario[4]>>)
    /\ scen' = 5 =>
          /\ dataLog' = <<Scenario[4]>>
          /\ Writes(cycTrace') <= 1
          /\ pc' \in {"cyc_disc", "cyc_write"} => Writes(cycTrace') = 0
          /\ pc' \in ConnectPcs \cup {"notresp"} => Writes(cycTrace') = 1

\* C9: every step of the program is a C9_Step: the data log receives exactly
\* the non-empty, non-HEARTBEAT lines, in the order read.
C9_DataLog == [][C9_Step]_vars

\* C9 witness: the scenario has been read and its power cycle has written.
C9_Witness ==
    /\ scen = 5
    /\ dataLog = <<Scenario[4]>>
    /\ cycTrace = <<"close", SIGNAL_POWER_CYCLE>>

\* C10: a device has an open Serial object exactly when its .ser holds one,
\* so never more than one.
C10_OneHandle ==
    \A d \in Devices : handles[d] = (IF ser[d] THEN 1 ELSE 0)

\* C10 witness: both links are open again after a failure and a restart, and
\* a power cycle has reopened the TX2 link.
C10_Witness ==
    /\ errorFile.last \in {"Serial Exception: ", "IO Error: "}
    /\ pc = "notresp"
    /\ handles["tx2"] = 1
    /\ handles["arduino"] = 1

\* __cycle_power returns to run in this step (its __connect_tx2 returns).
CycleReturns ==
    /\ pc = "ret"
    /\ ctx \in {"manual", "try"}
    /\ pc' # pc

\* C11 as stated: whenever the power cycle returns to the run loop, the TX2
\* link is connected.
C11_ReturnsConnected == [][CycleReturns => ser'["tx2"]]_vars

\* C11 as amended: when the power cycle returns to the run loop, the TX2 link
\* is connected if its reconnect took no keystroke, and disconnected if the
\* reconnect took a keystroke (a key other than Escape, after a failed open
\* attempt); it takes at most one.
C11_Step ==
    CycleReturns =>
       /\ conn.dev = "tx2"
       /\ conn.popped <= 1
       /\ ser'["tx2"] <=> (conn.popped = 0)
       /\ conn.popped = 0 => conn.attempts = conn.fails + 1
       /\ conn.popped = 1 => (conn.attempts = conn.fails /\ conn.fails > 0)

\* C11 (amended): every step of the program is a C11_Step.
C11_CycleReturn == [][C11_Step]_vars

\* C11 witness: the automatic power cycle has returned to run with the TX2
\* link disconnected, a keystroke having ended its retry loop.
C11_Witness ==
    /\ pc = "notresp"
    /\ ~ser["tx2"]
    /\ conn.popped = 1

\* C12: the poll of a retry that finds a key other than Escape takes that
\* one key and leaves the loop with no further open attempt; connect then
\* returns with the link disconnected; the other link, heartbeatReceived and
\* stop_queue are as they were.
C12_Step ==
    /\ (pc = "retry" /\ pc' # pc /\ input_queue # <<>>
           /\ Head(input_queue) # KEY_ESC) =>
          /\ pc' = "ret"
          /\ input_queue' = Tail(input_queue)
          /\ conn'.popped = 1
          /\ conn'.attempts = conn.attempts
          /\ ~ser[conn.dev]
          /\ UNCHANGED <<ser, handles, heartbeatReceived, stop_queue>>
    /\ (pc = "ret" /\ pc' # pc /\ conn.popped > 0) =>
          /\ conn.popped = 1
          /\ conn.attempts = conn.fails
          /\ ~ser'[conn.dev]
          /\ pc' \notin {"open", "retry"}
          /\ UNCHANGED <<ser, handles, heartbeatReceived, stop_queue,
                         input_queue>>

\* C12: every step of the program is a C12_Step.
C12_KeyEndsRetry == [][C12_Step]_vars

\* C12 witness: after two failed attempts on the Arduino link a key has
\* ended the retry loop; the TX2 link is open.
C12_Witness ==
    /\ pc = "ret"
    /\ conn.dev = "arduino"
    /\ conn.popped = 1
    /\ conn.fails = 2
    /\ ser["tx2"]
    /\ ~ser["arduino"]

\* C13: a connect() or disconnect() call handles the TX2 link first and the
\* Arduino link second: every open attempt and every close made for the
\* outer loop is on the link the call has reached, and the Arduino link is
\* reached only after the TX2 link.
C13_Step ==
    /\ order' \in {<<>>, <<"tx2">>, <<"tx2", "arduino">>}
    /\ \A d \in Devices :
          (ctx = "outer" /\ (ser'[d] # ser[d] \/ handles'[d] # handles[d])) =>
             (order' # <<>> /\ order'[Len(order')] = d)
    /\ (ctx = "outer" /\ pc = "open" /\ pc' # pc) =>
          (order # <<>> /\ order[Len(order)] = conn.dev)

\* C13: every step of the program is a C13_Step.
C13_Tx2First == [][C13_Step]_vars

\* C13 witness: after an I/O failure and the disconnect() that follows it, a
\* connect() has handled both links, the TX2 link first.
C13_Witness ==
    /\ pc = "run"
    /\ order = <<"tx2", "arduino">>
    /\ errorFile.last = "IO Error: "

\* input_queue is a FIFO between the two threads: a step of the main thread
\* that changes it removes its head, a step of the input thread that changes
\* it appends at its end.
FifoStep ==
    \/ input_queue' = input_queue
    \/ /\ pc \in {"loop", "retry"}
       /\ pc' # pc
       /\ input_queue # <<>>
       /\ input_queue' = Tail(input_queue)
    \/ /\ tpc = "getch"
       /\ tpc' = "check"
       /\ \E k \in Keys : input_queue' = Append(input_queue, k)

\* C14 as stated: keystrokes leave the queue in the order they entered it,
\* and no iteration of the run loop, with whatever it calls, takes more than
\* one.
C14_OnePerIteration == [][FifoStep /\ iterPops' <= 1]_vars

\* C14 as amended: keystrokes leave the queue in the order they entered it;
\* the top of an iteration takes at most one, and the reconnect of a power
\* cycle of that iteration can take one more, so an iteration takes at most
\* two.
C14_Step ==
    /\ FifoStep
    /\ iterPops' <= 2
    /\ (pc = "loop" /\ pc' # pc) => iterPops' <= 1
    /\ (iterPops' > iterPops /\ pc # "loop") =>
          (pc = "retry" /\ InCycle /\ conn.popped = 0)

\* C14 (amended): every step of the program is a C14_Step.
C14_KeystrokeOrder == [][C14_Step]_vars

\* C14 witness: an iteration took the X key at its top and a second key in
\* the reconnect of the power cycle.
C14_Witness ==
    /\ iterPops = 2
    /\ ctx = "manual"
    /\ pc = "ret"

\* C15: a step that finds a liveness failure (an empty read while
\* heartbeatReceived is true) writes one "Not Responding" entry to the error
\* file, before the power cycle starts.
C15_NotRespondingLogged ==
    [][(ReadsLine(<<>>) /\ heartbeatReceived) =>
          /\ errorFile'.n = errorFile.n + 1
          /\ errorFile'.last = "Not Responding: "]_vars

\* A step that writes the entry of the bare "except:" of run
WritesGeneralError ==
    /\ errorFile'.n = errorFile.n + 1
    /\ errorFile'.last = "GENERAL ERROR"

\* C16: when the bare "except:" of run writes its entry, that is the only
\* entry of the read cycle, the loop goes on, and the links, heartbeatReceived
\* (true at the start of every read cycle that reaches a power cycle), the
\* stop signal and the data log are as the read cycle found them.
C16_GeneralErrorKeepsSession ==
    [][WritesGeneralError =>
          /\ pc' = "loop"
          /\ UNCHANGED <<ser, handles, heartbeatReceived, stop_queue,
                         dataLog>>
          /\ pc \in {"retry", "notresp"} =>
                (heartbeatReceived' /\ ser'["tx2"])]_vars

\* The main thread takes an X keystroke from input_queue in this step.
PopsX ==
    /\ input_queue # <<>>
    /\ Head(input_queue) = KEY_X
    /\ input_queue' = Tail(input_queue)

\* C17 as stated: every X keystroke the main thread takes starts a power
\* cycle.
C17_EveryXCycles == [][PopsX => (pc' = "cyc_disc" /\ ctx' = "manual")]_vars

\* C17 as amended: an X keystroke taken at the top of an iteration starts
\* one power cycle, which is over (with its one POWER_CYCLE write) before the
\* next read; an X keystroke taken by the poll of a connect retry ends that
\* retry loop and starts no power cycle.
C17_Step ==
    /\ (pc = "loop" /\ PopsX) => (pc' = "cyc_disc" /\ ctx' = "manual")
    /\ (ctx' = "manual" /\ ctx # "manual") => (pc = "loop" /\ PopsX)
    /\ ctx' = "manual" =>
          /\ pc' \in {"cyc_disc", "cyc_write", "exited"} \cup ConnectPcs
          /\ Writes(cycTrace') <= 1
    /\ (ctx = "manual" /\ ctx' # "manual") =>
          \/ pc' = "read" /\ Writes(cycTrace') = 1
          \/ pc' = "except"
    /\ (pc = "retry" /\ PopsX) =>
          /\ pc' = "ret"
          /\ ctx' = ctx
          /\ cycTrace' = cycTrace

\* C17 (amended): every step of the program is a C17_Step.
C17_ManualCycle == [][C17_Step]_vars

\* C17 witness: the power cycle of an X key is over, and the run loop is at
\* its read.
C17_Witness ==
    /\ pc = "read"
    /\ iterPops = 1
    /\ cycTrace = <<"close", SIGNAL_POWER_CYCLE, "open">>

\* C18: once 'stop' has been posted, the input thread puts no further
\* keystroke into input_queue.
C18_NoKeyAfterStop ==
    [][(stop_queue # <<>> \/ tpc = "done") =>
          Len(input_queue') <= Len(input_queue)]_vars

\* heartbeatReceived implies that the TX2 link is connected
C19_Inv == heartbeatReceived => ser["tx2"]

\* Every disconnect of the TX2 link resets heartbeatReceived, and it becomes
\* true only on a HEARTBEAT line read from the connected TX2 link.
C19_Step ==
    /\ (ser["tx2"] /\ ~ser'["tx2"]) =>
          /\ ~heartbeatReceived'
          /\ pc \in {"cyc_disc", "disc_tx2"}
    /\ (~heartbeatReceived /\ heartbeatReceived') =>
          /\ ReadsLine(SIGNAL_HEARTBEAT)
          /\ ser["tx2"]
          /\ ser'["tx2"]

\* C19: in every reachable state heartbeatReceived implies that the TX2 link
\* is connected, and every step of the program is a C19_Step.
C19_HeartbeatImpliesConnected == [] C19_Inv /\ [][C19_Step]_vars

\* C19 witness: after an I/O failure, the disconnect() and the restart that
\* follow it, the heartbeat has been received on the reopened TX2 link.
C19_Witness ==
    /\ heartbeatReceived
    /\ ser["tx2"]
    /\ errorFile.last = "Serial Exception: "

\* C20: wherever the main thread is about to call flushInput, readline or
\* write on a link, that link is connected.
C20_IOOnConnected ==
    /\ pc = "run" => (ser["tx2"] /\ ser["arduino"])
    /\ pc = "read" => ser["tx2"]
    /\ pc = "cyc_write" => ser["arduino"]

=============================================================================
